---- MODULE Spec2Model ----
(***************************************************************************)
(* Model of cli/generate/src/prepare_grammar/mod.rs: the orchestrator      *)
(* prepare_grammar and the precedence validator validate_precedences.      *)
(*                                                                         *)
(* Strings are modelled by small naturals: precedence name k stands for    *)
(* the k-th name in lexicographic order ("a" < "b" < ...), and variable    *)
(* name k for "v<k>".                                                      *)
(***************************************************************************)
EXTENDS Integers, Sequences, FiniteSets, TLC

(* ------------------------------ bounds -------------------------------- *)
\* Number of distinct precedence names.
NumNames == 2
\* Lists plus entries in a grammar's precedence_orderings.
MaxOrderingSize == 7
\* Rule-tree nodes in a grammar's variables.
MaxNodes == 5

(* --------------------------- data model ------------------------------- *)
\* PrecedenceEntry: a declared name, or the other (non-Name) variant.
NameEntry(n) == [kind |-> "Name", v |-> n]
OtherEntry == [kind |-> "Number", v |-> 0]
PrecedenceEntry == {NameEntry(n) : n \in 1..NumNames} \cup {OtherEntry}

\* Position of a variant in the enum declaration.
discriminant(e) == IF e.kind = "Name" THEN 0 ELSE 1

\* entry1 > entry2 under the derived comparison: variant first, then payload.
entry_gt(e1, e2) ==
    \/ discriminant(e1) > discriminant(e2)
    \/ discriminant(e1) = discriminant(e2) /\ e1.v > e2.v

\* Display of a PrecedenceEntry: names are quoted, numbers are numerals.
entry_to_string(e) == [quoted |-> (e.kind = "Name"), text |-> e.v]

\* Precedence carried by a metadata node.
PrecNone == [kind |-> "None", v |-> 0]
PrecName(n) == [kind |-> "Name", v |-> n]
Precedence == {PrecNone} \cup {PrecName(n) : n \in 1..NumNames}

\* Rule trees.
Leaf == [type |-> "String"]
Repeat(r) == [type |-> "Repeat", rule |-> r]
SeqRule(es) == [type |-> "Seq", elements |-> es]
Choice(es) == [type |-> "Choice", elements |-> es]
Metadata(p, r) == [type |-> "Metadata", precedence |-> p, rule |-> r]

Variable(name, rule) == [name |-> name, rule |-> rule]

(* ------------------------------ errors -------------------------------- *)
UndeclaredPrecedenceError(precedence, rule) ==
    [type |-> "UndeclaredPrecedenceError", precedence |-> precedence, rule |-> rule]

ConflictingPrecedenceOrderingError(p1, p2) ==
    [type |-> "ConflictingPrecedenceOrderingError", precedence_1 |-> p1, precedence_2 |-> p2]

\* #[from] conversions into ValidatePrecedenceError.
ValidatePrecedenceError(e) ==
    [type |-> "ValidatePrecedenceError",
     variant |-> IF e.type = "UndeclaredPrecedenceError" THEN "Undeclared" ELSE "Ordering",
     source |-> e]

Ok == [tag |-> "Ok"]
Err(e) == [tag |-> "Err", error |-> e]
Pending == [tag |-> "Pending"]

(* -------------------- validate_precedences::validate ------------------ *)
RECURSIVE validate(_, _, _)
RECURSIVE try_for_each(_, _, _, _)

\* elements.iter().try_for_each(|e| validate(rule_name, e, names)), from index k.
try_for_each(rule_name, elements, names, k) ==
    IF k > Len(elements) THEN Ok
    ELSE LET r == validate(rule_name, elements[k], names)
         IN IF r.tag = "Err" THEN r
            ELSE try_for_each(rule_name, elements, names, k + 1)

\* validate, but a repeat is taken for a leaf.
validate_skipping_repeat(rule_name, rule, names) ==
    CASE rule.type \in {"Seq", "Choice"} -> try_for_each(rule_name, rule.elements, names, 1)
      [] rule.type = "Metadata" ->
            IF rule.precedence.kind = "Name" /\ rule.precedence.v \notin names
            THEN Err(ValidatePrecedenceError(
                     UndeclaredPrecedenceError(rule.precedence.v, rule_name)))
            ELSE validate(rule_name, rule.rule, names)
      [] OTHER -> Ok

\* validate, but a metadata node's rule is checked before its own precedence.
validate_inner_first(rule_name, rule, names) ==
    CASE rule.type = "Repeat" -> validate(rule_name, rule.rule, names)
      [] rule.type \in {"Seq", "Choice"} -> try_for_each(rule_name, rule.elements, names, 1)
      [] rule.type = "Metadata" ->
            LET r == validate(rule_name, rule.rule, names)
            IN IF r.tag = "Err" THEN r
               ELSE IF rule.precedence.kind = "Name" /\ rule.precedence.v \notin names
               THEN Err(ValidatePrecedenceError(
                        UndeclaredPrecedenceError(rule.precedence.v, rule_name)))
               ELSE Ok
      [] OTHER -> Ok

validate(rule_name, rule, names) ==
    CASE rule.type = "Repeat" -> validate(rule_name, rule.rule, names)
      [] rule.type \in {"Seq", "Choice"} -> try_for_each(rule_name, rule.elements, names, 1)
      [] rule.type = "Metadata" ->
            IF rule.precedence.kind = "Name" /\ rule.precedence.v \notin names
            THEN Err(ValidatePrecedenceError(
                     UndeclaredPrecedenceError(rule.precedence.v, rule_name)))
            ELSE validate(rule_name, rule.rule, names)
      [] OTHER -> Ok

(* ------------------------------- state -------------------------------- *)
VARIABLES
    grammar,            \* the InputGrammar: precedence_orderings, variables
    pc,                 \* position in prepare_grammar / validate_precedences
    li,                 \* index of `list` in grammar.precedence_orderings
    i,                  \* index of the outer-loop entry in `list`
    j,                  \* index of the inner-loop entry in `list`
    entry1,             \* the outer loop's mutable binding
    pairs,              \* HashMap (entry, entry) -> Ordering
    precedence_names,   \* HashSet of declared names
    vi,                 \* index of `variable` in grammar.variables
    vresult,            \* value returned by validate_precedences
    calls,              \* stages invoked so far, with what each returned
    locals,             \* let-bindings of prepare_grammar made so far
    result              \* value returned by prepare_grammar

vars == <<grammar, pc, li, i, j, entry1, pairs, precedence_names, vi, vresult,
          calls, locals, result>>

vpvars == <<li, i, j, entry1, pairs, precedence_names, vi, vresult>>
pgvars == <<calls, locals, result>>

NoEntry == [kind |-> "None", v |-> 0]
EmptyMap == [k \in {} |-> "Greater"]

list == grammar.precedence_orderings[li]

(* ------------------------ validate_precedences ------------------------ *)
\* for list in &grammar.precedence_orderings
ForList ==
    /\ pc = "for_list"
    /\ IF li < Len(grammar.precedence_orderings)
       THEN /\ li' = li + 1
            /\ i' = 0
            /\ pc' = "for_entry1"
       ELSE /\ pc' = "collect_names"
            /\ UNCHANGED <<li, i>>
    /\ UNCHANGED <<grammar, j, entry1, pairs, precedence_names, vi, vresult>>
    /\ UNCHANGED pgvars

\* for (i, mut entry1) in list.iter().enumerate()
ForEntry1 ==
    /\ pc = "for_entry1"
    /\ IF i < Len(list)
       THEN /\ i' = i + 1
            /\ entry1' = list[i + 1]
            /\ j' = i + 1
            /\ pc' = "for_entry2"
       ELSE /\ pc' = "for_list"
            /\ UNCHANGED <<i, j, entry1>>
    /\ UNCHANGED <<grammar, li, pairs, precedence_names, vi, vresult>>
    /\ UNCHANGED pgvars

\* the swap, with the comparison turned round.
swap_if_less(e1, e2) ==
    IF entry_gt(e2, e1)
    THEN [entry1 |-> e2, entry2 |-> e1, ordering |-> "Less"]
    ELSE [entry1 |-> e1, entry2 |-> e2, ordering |-> "Greater"]

\* the pair is keyed in list order, without the swap.
swap_never(e1, e2) == [entry1 |-> e1, entry2 |-> e2, ordering |-> "Greater"]

\* if entry1 > entry2 { ordering = Less; swap(entry1, entry2) }
\* gives the values of (entry1, entry2, ordering) after the conditional swap.
swap_if_greater(e1, e2) ==
    IF entry_gt(e1, e2)
    THEN [entry1 |-> e2, entry2 |-> e1, ordering |-> "Less"]
    ELSE [entry1 |-> e1, entry2 |-> e2, ordering |-> "Greater"]

\* any occupied entry counts as a conflict.
conflicts_when_occupied(map, key, ordering) == key \in DOMAIN map

\* match pairs.entry((entry1, entry2)): does the occupied entry disagree?
conflicts(map, key, ordering) ==
    key \in DOMAIN map /\ map[key] # ordering

\* Vacant(e) => e.insert(ordering); an occupied entry is left as it is.
insert_if_vacant(map, key, ordering) ==
    IF key \in DOMAIN map THEN map
    ELSE [k \in DOMAIN map \cup {key} |-> IF k = key THEN ordering ELSE map[k]]

\* Err(ConflictingPrecedenceOrderingError { entry1.to_string(), entry2.to_string() })?
conflict_error(e1, e2) ==
    Err(ValidatePrecedenceError(
        ConflictingPrecedenceOrderingError(entry_to_string(e1), entry_to_string(e2))))

\* for mut entry2 in list.iter().skip(i + 1) { ... }
ForEntry2 ==
    /\ pc = "for_entry2"
    /\ IF j < Len(list)
       THEN LET entry2 == list[j + 1] IN
            /\ j' = j + 1
            /\ IF entry2 = entry1
               THEN /\ pc' = "for_entry2"
                    /\ UNCHANGED <<entry1, pairs, vresult>>
               ELSE LET s == swap_if_greater(entry1, entry2)
                        key == <<s.entry1, s.entry2>>
                    IN /\ entry1' = s.entry1
                       /\ IF conflicts(pairs, key, s.ordering)
                          THEN /\ vresult' = conflict_error(s.entry1, s.entry2)
                               /\ pc' = "vp_returned"
                               /\ UNCHANGED pairs
                          ELSE /\ pairs' = insert_if_vacant(pairs, key, s.ordering)
                               /\ pc' = "for_entry2"
                               /\ UNCHANGED vresult
       ELSE /\ pc' = "for_entry1"
            /\ UNCHANGED <<j, entry1, pairs, vresult>>
    /\ UNCHANGED <<grammar, li, i, precedence_names, vi>>
    /\ UNCHANGED pgvars

\* only the first list's names are collected.
collect_names_of_first_list(orderings) ==
    IF orderings = <<>> THEN {}
    ELSE {orderings[1][k].v :
             k \in {x \in DOMAIN orderings[1] : orderings[1][x].kind = "Name"}}

\* flat_map over the lists, filter_map keeping the Name entries, collect.
collect_names(orderings) ==
    UNION {{orderings[l][k].v :
               k \in {x \in DOMAIN orderings[l] : orderings[l][x].kind = "Name"}} :
           l \in DOMAIN orderings}

CollectNames ==
    /\ pc = "collect_names"
    /\ precedence_names' = collect_names(grammar.precedence_orderings)
    /\ vi' = 0
    /\ pc' = "for_variable"
    /\ UNCHANGED <<grammar, li, i, j, entry1, pairs, vresult>>
    /\ UNCHANGED pgvars

\* for variable in &grammar.variables { validate(...)?; }  Ok(())
ForVariable ==
    /\ pc = "for_variable"
    /\ IF vi < Len(grammar.variables)
       THEN LET variable == grammar.variables[vi + 1]
                r == validate(variable.name, variable.rule, precedence_names)
            IN /\ vi' = vi + 1
               /\ IF r.tag = "Err"
                  THEN /\ vresult' = r
                       /\ pc' = "vp_returned"
                  ELSE /\ pc' = "for_variable"
                       /\ UNCHANGED vresult
       ELSE /\ vresult' = Ok
            /\ pc' = "vp_returned"
            /\ UNCHANGED vi
    /\ UNCHANGED <<grammar, li, i, j, entry1, pairs, precedence_names>>
    /\ UNCHANGED pgvars

(* --------------------------- prepare_grammar -------------------------- *)
\* Error type a fallible stage returns.
stage_error(stage) ==
    CASE stage = "intern_symbols" -> [type |-> "InternSymbolsError"]
      [] stage = "extract_tokens" -> [type |-> "ExtractTokensError"]
      [] stage = "flatten_grammar" -> [type |-> "FlattenGrammarError"]
      [] stage = "expand_tokens" -> [type |-> "ExpandTokensError"]
      [] stage = "process_inlines" -> [type |-> "ProcessInlinesError"]

\* the conversions, with ExpandTokensError wrapped as FlattenGrammar.
PrepareGrammarError_miswrapped(e) ==
    [variant |-> CASE e.type = "ValidatePrecedenceError" -> "ValidatePrecedences"
                   [] e.type = "InternSymbolsError" -> "InternSymbols"
                   [] e.type = "ExtractTokensError" -> "ExtractTokens"
                   [] e.type = "FlattenGrammarError" -> "FlattenGrammar"
                   [] e.type = "ExpandTokensError" -> "FlattenGrammar"
                   [] e.type = "ProcessInlinesError" -> "ProcessInlines",
     source |-> e]

\* #[from] conversions into PrepareGrammarError.
PrepareGrammarError(e) ==
    [variant |-> CASE e.type = "ValidatePrecedenceError" -> "ValidatePrecedences"
                   [] e.type = "InternSymbolsError" -> "InternSymbols"
                   [] e.type = "ExtractTokensError" -> "ExtractTokens"
                   [] e.type = "FlattenGrammarError" -> "FlattenGrammar"
                   [] e.type = "ExpandTokensError" -> "ExpandTokens"
                   [] e.type = "ProcessInlinesError" -> "ProcessInlines",
     source |-> e]

\* The statement that follows a stage's statement in prepare_grammar.
next_statement(stage) ==
    CASE stage = "validate_precedences" -> "intern_symbols"
      [] stage = "intern_symbols" -> "extract_tokens"
      [] stage = "extract_tokens" -> "expand_repeats"
      [] stage = "expand_repeats" -> "flatten_grammar"
      [] stage = "flatten_grammar" -> "expand_tokens"
      [] stage = "expand_tokens" -> "extract_default_aliases"
      [] stage = "extract_default_aliases" -> "process_inlines"
      [] stage = "process_inlines" -> "return_ok"

\* the error is not propagated: control goes on to the next statement.
question_mark_dropped(stage, r) == next_statement(stage)

\* The `?` operator: where control goes after a stage returned r.
question_mark(stage, r) ==
    IF r.tag = "Err" THEN "done" ELSE next_statement(stage)

\* validate_precedences(input_grammar)
CallValidatePrecedences ==
    /\ pc = "prepare_grammar"
    /\ calls' = Append(calls, [stage |-> "validate_precedences", returned |-> Pending])
    /\ pairs' = EmptyMap
    /\ li' = 0
    /\ pc' = "for_list"
    /\ UNCHANGED <<grammar, i, j, entry1, precedence_names, vi, vresult, locals, result>>

\* validate_precedences(input_grammar)?
ValidatePrecedencesReturned ==
    /\ pc = "vp_returned"
    /\ calls # <<>>
    /\ calls' = [calls EXCEPT ![Len(calls)].returned = vresult]
    /\ pc' = question_mark("validate_precedences", vresult)
    /\ result' = IF vresult.tag = "Err" THEN Err(PrepareGrammarError(vresult.error))
                 ELSE result
    /\ UNCHANGED <<grammar, locals>>
    /\ UNCHANGED vpvars

\* let <binds> = <stage>(...)?  for a stage that can fail
FallibleStage(stage, binds) ==
    /\ pc = stage
    /\ \E r \in {Ok, Err(stage_error(stage))} :
        /\ calls' = Append(calls, [stage |-> stage, returned |-> r])
        /\ pc' = question_mark(stage, r)
        /\ IF r.tag = "Err"
           THEN /\ result' = Err(PrepareGrammarError(r.error))
                /\ UNCHANGED locals
           ELSE /\ locals' = locals \cup binds
                /\ UNCHANGED result
    /\ UNCHANGED grammar
    /\ UNCHANGED vpvars

\* let <binds> = <stage>(...)  for a stage that cannot fail
InfallibleStage(stage, binds) ==
    /\ pc = stage
    /\ calls' = Append(calls, [stage |-> stage, returned |-> Ok])
    /\ pc' = next_statement(stage)
    /\ locals' = locals \cup binds
    /\ UNCHANGED <<grammar, result>>
    /\ UNCHANGED vpvars

InternSymbols == FallibleStage("intern_symbols", {"interned_grammar"})
ExtractTokens == FallibleStage("extract_tokens", {"syntax_grammar", "lexical_grammar"})
ExpandRepeats == InfallibleStage("expand_repeats", {"syntax_grammar"})
FlattenGrammar == FallibleStage("flatten_grammar", {"syntax_grammar"})
ExpandTokens == FallibleStage("expand_tokens", {"lexical_grammar"})
ExtractDefaultAliases == InfallibleStage("extract_default_aliases", {"default_aliases"})
ProcessInlines == FallibleStage("process_inlines", {"inlines"})

\* Ok((syntax_grammar, lexical_grammar, inlines, default_aliases))
ReturnOk ==
    /\ pc = "return_ok"
    /\ {"syntax_grammar", "lexical_grammar", "inlines", "default_aliases"} \subseteq locals
    /\ result' = [tag |-> "Ok",
                  value |-> <<"syntax_grammar", "lexical_grammar", "inlines", "default_aliases">>]
    /\ pc' = "done"
    /\ UNCHANGED <<grammar, calls, locals>>
    /\ UNCHANGED vpvars

Next ==
    \/ CallValidatePrecedences
    \/ ForList
    \/ ForEntry1
    \/ ForEntry2
    \/ CollectNames
    \/ ForVariable
    \/ ValidatePrecedencesReturned
    \/ InternSymbols
    \/ ExtractTokens
    \/ ExpandRepeats
    \/ FlattenGrammar
    \/ ExpandTokens
    \/ ExtractDefaultAliases
    \/ ProcessInlines
    \/ ReturnOk

(* --------------------------- input grammars --------------------------- *)
\* Precedence orderings are written as words in which a separator opens
\* each list: <<Sep, a, b, Sep, b>> stands for [[a, b], [b]].
Sep == [kind |-> "Sep", v |-> 0]

RECURSIVE ListEnd(_, _)
ListEnd(w, k) == IF k > Len(w) \/ w[k] = Sep THEN k - 1 ELSE ListEnd(w, k + 1)

RECURSIVE SplitLists(_)
SplitLists(w) ==
    IF w = <<>> THEN <<>>
    ELSE LET n == ListEnd(w, 2)
         IN <<SubSeq(w, 2, n)>> \o SplitLists(SubSeq(w, n + 1, Len(w)))

\* Words for the orderings whose lists and entries number `size` together:
\* those among OrderingWords(size) that start with a separator.
OrderingWords(size) == [1..size -> PrecedenceEntry \cup {Sep}]

\* table[n] holds the rule trees of n nodes and the sequences of rule trees
\* of n nodes together (sequences and choices have at least one member).
RECURSIVE RuleTable(_)
RuleTable(n) ==
    IF n = 0 THEN <<>>
    ELSE LET t == RuleTable(n - 1)
             forests_of(m) == IF m = 0 THEN {<<>>} ELSE t[m].forests
             rules == IF n = 1 THEN {Leaf}
                      ELSE {Repeat(r) : r \in t[n - 1].rules}
                           \cup {Metadata(p, r) : p \in Precedence, r \in t[n - 1].rules}
                           \cup {SeqRule(f) : f \in t[n - 1].forests}
                           \cup {Choice(f) : f \in t[n - 1].forests}
             rules_of(k) == IF k = n THEN rules ELSE t[k].rules
             forests == UNION {{<<r>> \o f : r \in rules_of(k), f \in forests_of(n - k)} :
                               k \in 1..n}
         IN Append(t, [rules |-> rules, forests |-> forests])

\* The k-th variable is named "v<k>".
VariablesOf(f) == [k \in DOMAIN f |-> Variable(k, f[k])]

\* Variable lists of at most n rule-tree nodes.
Variables(n) ==
    LET t == RuleTable(n)
    IN {<<>>} \cup {VariablesOf(f) : f \in UNION {t[m].forests : m \in 1..n}}

\* A few variable lists, for the runs that range over all orderings.
FewVariables ==
    {<<>>, <<Variable(1, Repeat(Metadata(PrecName(1), Leaf)))>>}

\* A few orderings, for the runs that range over all variable lists: one
\* declaring no name, one declaring name 1 only, one declaring name 1 only
\* and with a conflict.
FewOrderings ==
    {<<<<OtherEntry>>>>,
     <<<<NameEntry(1)>>>>,
     <<<<NameEntry(1), OtherEntry>>, <<OtherEntry, NameEntry(1)>>>>}

InitGrammar(g, start) ==
    /\ grammar = g
    /\ pc = start
    /\ li = 0 /\ i = 0 /\ j = 0
    /\ entry1 = NoEntry
    /\ pairs = EmptyMap
    /\ precedence_names = {}
    /\ vi = 0
    /\ vresult = Pending
    /\ calls = <<>>
    /\ locals = {}
    /\ result = Pending

(* --------------------------- specifications --------------------------- *)
\* prepare_grammar called on a few grammars.
Init ==
    \E os \in FewOrderings :
    \E vs \in FewVariables \cup {<<Variable(1, Metadata(PrecName(2), Leaf))>>} :
        InitGrammar([precedence_orderings |-> os, variables |-> vs], "prepare_grammar")
Spec == Init /\ [][Next]_vars

\* validate_precedences called directly, as the unit tests do.
NextValidate == ForList \/ ForEntry1 \/ ForEntry2 \/ CollectNames \/ ForVariable

InitOrderings ==
    \E size \in 0..MaxOrderingSize :
    \E w \in OrderingWords(size) :
    \E vs \in FewVariables :
        /\ size > 0 => w[1] = Sep
        /\ InitGrammar([precedence_orderings |-> SplitLists(w), variables |-> vs], "for_list")
SpecOrderings == InitOrderings /\ [][NextValidate]_vars

InitRules ==
    \E vs \in Variables(MaxNodes) :
    \E os \in FewOrderings :
        InitGrammar([precedence_orderings |-> os, variables |-> vs], "for_list")
SpecRules == InitRules /\ [][NextValidate]_vars

(* ----------------------------- properties ----------------------------- *)
orderings == grammar.precedence_orderings
variables == grammar.variables

Returned == vresult.tag # "Pending"
IsOrderingError == vresult.tag = "Err" /\ vresult.error.variant = "Ordering"
IsUndeclaredError == vresult.tag = "Err" /\ vresult.error.variant = "Undeclared"

\* The entry a display string of an error stands for.
entry_from_string(s) == [kind |-> IF s.quoted THEN "Name" ELSE "Number", v |-> s.text]
Named1 == entry_from_string(vresult.error.source.precedence_1)
Named2 == entry_from_string(vresult.error.source.precedence_2)

\* p stands before q in list l.
Before(l, p, q) == \E x, y \in DOMAIN l : x < y /\ l[x] = p /\ l[y] = q

\* p before q somewhere and q before p somewhere, in any lists.
BothDirections(p, q) ==
    /\ p # q
    /\ \E m, n \in DOMAIN orderings : Before(orderings[m], p, q) /\ Before(orderings[n], q, p)

\* p before q in one list and q before p in another list.
BothDirectionsInTwoLists(p, q) ==
    /\ p # q
    /\ \E m, n \in DOMAIN orderings :
          m # n /\ Before(orderings[m], p, q) /\ Before(orderings[n], q, p)

\* Some list has p directly before q and some list has q directly before p.
AdjacentConflict ==
    \E m, n \in DOMAIN orderings :
    \E x \in DOMAIN orderings[m], y \in DOMAIN orderings[n] :
        /\ x + 1 \in DOMAIN orderings[m]
        /\ y + 1 \in DOMAIN orderings[n]
        /\ orderings[m][x] # orderings[m][x + 1]
        /\ orderings[m][x] = orderings[n][y + 1]
        /\ orderings[m][x + 1] = orderings[n][y]

\* Some list holds the same entry twice.
RepeatedEntry ==
    \E m \in DOMAIN orderings : \E x, y \in DOMAIN orderings[m] :
        x < y /\ orderings[m][x] = orderings[m][y]

\* The names that appear in some entry of the ordering lists.
DeclaredNames ==
    {e.v : e \in {d \in UNION {{orderings[m][x] : x \in DOMAIN orderings[m]} :
                               m \in DOMAIN orderings} : d.kind = "Name"}}

\* The named precedences of a rule's metadata nodes, in pre-order.
RECURSIVE PreOrder(_)
RECURSIVE PreOrderAll(_, _)
PreOrderAll(elements, k) ==
    IF k > Len(elements) THEN <<>>
    ELSE PreOrder(elements[k]) \o PreOrderAll(elements, k + 1)

PreOrder(rule) ==
    CASE rule.type = "Repeat" -> PreOrder(rule.rule)
      [] rule.type \in {"Seq", "Choice"} -> PreOrderAll(rule.elements, 1)
      [] rule.type = "Metadata" ->
            (IF rule.precedence.kind = "Name" THEN <<rule.precedence.v>> ELSE <<>>)
            \o PreOrder(rule.rule)
      [] OTHER -> <<>>

\* Every use of a named precedence, in variable order and then pre-order.
RECURSIVE UsesFrom(_)
UsesFrom(k) ==
    IF k > Len(variables) THEN <<>>
    ELSE LET ns == PreOrder(variables[k].rule)
         IN [x \in DOMAIN ns |-> [precedence |-> ns[x], rule |-> variables[k].name]]
            \o UsesFrom(k + 1)

IsUndeclared(u) == u.precedence \notin DeclaredNames
UndeclaredUses == SelectSeq(UsesFrom(1), IsUndeclared)

UsedNames == {UsesFrom(1)[x].precedence : x \in DOMAIN UsesFrom(1)}

ReportedUse ==
    [precedence |-> vresult.error.source.precedence, rule |-> vresult.error.source.rule]

\* C1: whenever two lists order two entries in opposite directions, validation
\* fails with a conflicting-ordering error that names such a pair, smaller
\* entry first.
C1_ConflictReported ==
    (Returned /\ \E p, q \in PrecedenceEntry : BothDirectionsInTwoLists(p, q))
        => /\ IsOrderingError
           /\ entry_gt(Named2, Named1)
           /\ BothDirections(Named1, Named2)

\* C2 as stated: validation succeeds when every used name is declared and no
\* two different lists order a pair in opposite directions.
C2_SuccessUnlessTwoListsConflict ==
    (/\ Returned
     /\ UsedNames \subseteq DeclaredNames
     /\ ~ \E p, q \in PrecedenceEntry : BothDirectionsInTwoLists(p, q))
        => vresult = Ok

\* C2 amended: validation succeeds when every used name is declared and no
\* pair is ordered in opposite directions, within one list or across lists.
C2_SuccessUnlessConflict ==
    (/\ Returned
     /\ UsedNames \subseteq DeclaredNames
     /\ ~ \E p, q \in PrecedenceEntry : BothDirections(p, q))
        => vresult = Ok

C2_Witness ==
    /\ vresult = Ok
    /\ RepeatedEntry
    /\ UsedNames # {}
    /\ Len(orderings) > 1

\* C3 as stated: a grammar that uses an undeclared named precedence fails
\* with an undeclared-precedence error naming such a use and its variable.
C3_UndeclaredReported ==
    (Returned /\ UndeclaredUses # <<>>)
        => /\ IsUndeclaredError
           /\ \E x \in DOMAIN UndeclaredUses : ReportedUse = UndeclaredUses[x]

\* C3 amended: the same, for grammars on which the ordering check raises no
\* conflicting-ordering error.
C3_UndeclaredReportedUnlessConflict ==
    (Returned /\ UndeclaredUses # <<>> /\ ~ IsOrderingError)
        => /\ IsUndeclaredError
           /\ \E x \in DOMAIN UndeclaredUses : ReportedUse = UndeclaredUses[x]

C3_Witness ==
    /\ IsUndeclaredError
    /\ \E k \in DOMAIN variables :
          /\ variables[k].name = ReportedUse.rule
          /\ variables[k].rule.type = "Repeat"
          /\ variables[k].rule.rule.type \in {"Seq", "Choice"}

\* C4: an undeclared-precedence error names the first undeclared use in
\* variable-declaration order and, within a variable, in pre-order.
C4_FirstUndeclaredReported ==
    IsUndeclaredError => (UndeclaredUses # <<>> /\ ReportedUse = Head(UndeclaredUses))

C4_Witness ==
    /\ IsUndeclaredError
    /\ Len(UndeclaredUses) > 1
    /\ UndeclaredUses[1].precedence # UndeclaredUses[2].precedence
    /\ UndeclaredUses[1].rule = UndeclaredUses[2].rule
    /\ \E k \in DOMAIN variables : variables[k].rule.type \in {"Seq", "Choice"}

\* C5: the stages are invoked in the fixed order, each at most once, and a
\* stage is invoked only after every earlier stage returned successfully.
StageOrder ==
    <<"validate_precedences", "intern_symbols", "extract_tokens", "expand_repeats",
      "flatten_grammar", "expand_tokens", "extract_default_aliases", "process_inlines">>

C5_StagesInOrder ==
    /\ Len(calls) <= Len(StageOrder)
    /\ \A k \in DOMAIN calls :
          /\ calls[k].stage = StageOrder[k]
          /\ k < Len(calls) => calls[k].returned = Ok

C5_Witness ==
    /\ pc = "done"
    /\ Len(calls) = 5
    /\ calls[5].returned.tag = "Err"

\* C6: a finished call returns either the 4-tuple, after all eight stages
\* succeeded, or the error of the first failing stage wrapped in that
\* stage's variant, and no tuple.
OwnVariant(stage) ==
    CASE stage = "validate_precedences" -> "ValidatePrecedences"
      [] stage = "intern_symbols" -> "InternSymbols"
      [] stage = "extract_tokens" -> "ExtractTokens"
      [] stage = "flatten_grammar" -> "FlattenGrammar"
      [] stage = "expand_tokens" -> "ExpandTokens"
      [] stage = "process_inlines" -> "ProcessInlines"
      [] OTHER -> "none"

C6_OneOutcome ==
    IF pc # "done" THEN result = Pending
    ELSE \/ /\ result = [tag |-> "Ok",
                         value |-> <<"syntax_grammar", "lexical_grammar", "inlines",
                                     "default_aliases">>]
            /\ Len(calls) = Len(StageOrder)
            /\ \A k \in DOMAIN calls : calls[k].returned = Ok
         \/ /\ calls # <<>>
            /\ calls[Len(calls)].returned.tag = "Err"
            /\ \A k \in 1..Len(calls) - 1 : calls[k].returned = Ok
            /\ result = Err([variant |-> OwnVariant(calls[Len(calls)].stage),
                             source |-> calls[Len(calls)].returned.error])

C6_Witness ==
    /\ pc = "done"
    /\ result.tag = "Err"
    /\ result.error.variant = "ExpandTokens"

\* C7: a conflicting-ordering error names the smaller entry first.
C7_SmallerEntryFirst == IsOrderingError => entry_gt(Named2, Named1)

\* orderings [[a, b], [b, c, a]], c being the non-name entry: the conflict is
\* found with b as the outer entry and a as the inner one.
C7_Witness ==
    /\ IsOrderingError
    /\ orderings = <<<<NameEntry(1), NameEntry(2)>>,
                     <<NameEntry(2), OtherEntry, NameEntry(1)>>>>
    /\ Named1 = NameEntry(1)
    /\ Named2 = NameEntry(2)
    /\ list[i] = NameEntry(2)
    /\ list[j] = NameEntry(1)

\* C8: when the pair loop finishes without an error, every two distinct
\* entries at positions x < y of a list are in the map, under the key
\* (smaller, larger), with the direction that list implies.
LoopFinished ==
    \/ pc \in {"collect_names", "for_variable"}
    \/ Returned /\ ~ IsOrderingError

C8_AllPairsRecorded ==
    LoopFinished =>
        \A m \in DOMAIN orderings : \A x, y \in DOMAIN orderings[m] :
            (x < y /\ orderings[m][x] # orderings[m][y]) =>
                LET p == orderings[m][x]
                    q == orderings[m][y]
                    key == IF entry_gt(p, q) THEN <<q, p>> ELSE <<p, q>>
                    direction == IF entry_gt(p, q) THEN "Less" ELSE "Greater"
                IN key \in DOMAIN pairs /\ pairs[key] = direction

\* C9: a conflicting-ordering error names two distinct entries that the
\* lists really order in both directions.
C9_ErrorOnlyOnConflict == IsOrderingError => BothDirections(Named1, Named2)

C9_Witness ==
    /\ IsOrderingError
    /\ RepeatedEntry
    /\ \E m, n \in DOMAIN orderings : m # n /\
          \E p, q \in PrecedenceEntry :
              p # q /\ Before(orderings[m], p, q) /\ Before(orderings[n], p, q)

\* C10: the lists are checked before any rule: a grammar with a conflict
\* between directly neighbouring entries and an undeclared use gets the
\* conflicting-ordering error, with no variable examined; an undeclared
\* error comes only after every list was gone through.
C10_OrderingCheckedFirst ==
    Returned =>
        /\ (AdjacentConflict /\ UndeclaredUses # <<>>) => IsOrderingError
        /\ IsOrderingError => (vi = 0 /\ precedence_names = {})
        /\ IsUndeclaredError => (li = Len(orderings) /\ ~ AdjacentConflict)

C10_Witness ==
    /\ IsOrderingError
    /\ AdjacentConflict
    /\ UndeclaredUses # <<>>

====
